---- MODULE Spec2Model ----
(***************************************************************************)
(* Model of pywallpaper's image catalog (src/src/db.py) and of the         *)
(* wallpaper rotation loop that drives it (src/src/main.py).               *)
(*                                                                         *)
(* Spec     : the Db methods called one at a time on one connection, as   *)
(*            the integration tests call them.                             *)
(* AppSpec  : the rotation loop, where every trigger starts a thread that  *)
(*            opens its own Db connection.                                 *)
(* KmeansSpec : kmeans and prune_means (src/src/kmeans.py) on small pixel  *)
(*            lists, means kept as exact fractions.                        *)
(* MeanShiftSpec : mean_shift_with_removal (src/src/mean_shift.py).        *)
(* RoundSpec : get_random_image_from_least_used(increment=True) called     *)
(*            again and again on a catalog nothing else touches.           *)
(* WhiteSpec : exclude_pixels_near_white (src/src/image_utils.py), applied *)
(*            once and again to its own result.                            *)
(***************************************************************************)
EXTENDS Integers, FiniteSets, Sequences, TLC

\* ---------------------------------------------------------------- bounds
MaxFiles == 2      \* file paths the catalog can hold
MaxPicks == 3      \* cap on the sum of total_times_used, so counters stay finite
MaxThreads == 2    \* image_loop threads that can be alive at once
MaxPixels == 3     \* pixels in the list kmeans is called with
MaxIters == 2      \* the largest "Max iterations" kmeans is run with
MaxMeans == 3      \* means in a direct call of prune_means
MaxCatalog == 4    \* records of the fixed catalog that least-used picks go round
MaxRounds == 2     \* rounds of least-used picks over the fixed catalog

Files == 1..MaxFiles
Dirs == {0}
Filepaths == Files \cup Dirs
Threads == 1..MaxThreads
Algorithms == {"pure", "weighted", "least used"}
\* What the "Random algorithm" option can hold: a recognized name or anything else.
RandomAlgorithm == Algorithms \cup {"random"}

VARIABLES
    images,     \* the committed images table: filepath -> row
    last,       \* the last call: its name, arguments, what it read and returned
    algorithm,  \* config "Random algorithm"
    pc,         \* image_loop thread -> its position in pick_new_wallpaper
    picked,     \* image_loop thread -> the filepath it chose from the rows it read
    db_writer,  \* the thread whose connection holds sqlite's write lock, or 0
    txn,        \* the uncommitted table of the connection holding the write lock
    timer,      \* cycle_timer: "stopped", or the delay it was started with
    dialog,     \* the "Empty wallpaper list" dialog is up
    episode,    \* the picks overlapping in time: table at their start, how many
    pixels,     \* the pixel list a color function was called with
    means,      \* kmeans: the current means, each an exact fraction sum/n
    pixel_groups_by_mean,  \* kmeans: the pixels assigned to each mean
    config,     \* the options the color function reads
    iters,      \* kmeans: iterations of the for loop done so far
    pruned,     \* kmeans: what the last iteration's prune_means did, if it ran
    cpc,        \* the color function called and its position
    result,     \* what the color function returned
    points,     \* mean shift: the points not yet assigned
    shifted,    \* mean shift: center and within_radius the last for loop ended with
    abandoned,  \* mean shift: seeds dropped without a cluster
    perf_list,  \* utils.perf_list: the list objects made so far, the global bound to the last
    frame       \* thread -> the locals of its get_common_colors_from_image call

shiftVars == <<points, shifted, abandoned>>
perfVars == <<perf_list, frame>>
colorVars == <<pixels, means, pixel_groups_by_mean, config, iters, pruned, cpc, result, shiftVars,
               perfVars>>
appVars == <<algorithm, pc, picked, db_writer, txn, timer, dialog, episode, colorVars>>
vars == <<images, last, appVars>>

\* No color function is running.
NoConfig == [n_clusters |-> 0, max_iters |-> 0, max_distance |-> 0, pruning_distance |-> 0]
NoShift == [center |-> [sum |-> <<0, 0, 0>>, n |-> 1], within_radius |-> << >>]
InitShift ==
    /\ points = << >>
    /\ shifted = NoShift
    /\ abandoned = 0

\* perf_list = [] at module level (utils.py); no call has locals yet
NoFrame == [calls |-> 0, it |-> 0, i |-> 0]
InitPerf ==
    /\ perf_list = << << >> >>
    /\ frame = [t \in Threads |-> NoFrame]

InitColor ==
    /\ InitShift
    /\ InitPerf
    /\ pixels = << >>
    /\ means = << >>
    /\ pixel_groups_by_mean = << >>
    /\ config = NoConfig
    /\ iters = 0
    /\ pruned = "not run"
    /\ cpc = "idle"
    /\ result = << >>

\* -------------------------------------------------------------- helpers
Min(S) == CHOOSE x \in S : \A y \in S : x <= y
Max(S) == CHOOSE x \in S : \A y \in S : x >= y
Range(f) == {f[x] : x \in DOMAIN f}

\* A TEXT column: NULL, or the text json.dumps made of a dict. A dict is the
\* sequence of its items in insertion order, which is the order json.dumps writes.
NULL == [null |-> TRUE, text |-> << >>]
json_dumps(d) == [null |-> FALSE, text |-> d]
json_loads(data) == data.text

\* A row as make_images_table's column defaults give it.
make_images_table(is_directory) ==
    [times_used |-> 0, total_times_used |-> 0, active |-> TRUE,
     is_directory |-> is_directory, hidden |-> FALSE, ephemeral |-> FALSE,
     is_eagle_directory |-> FALSE, eagle_folder_data |-> NULL]

\* Mutant: the eligibility filter without hidden=0.
get_all_active_images_no_hidden(imgs) ==
    {f \in DOMAIN imgs : imgs[f].active /\ ~imgs[f].is_directory}

\* WHERE active=1 AND is_directory=0 AND hidden=0
get_all_active_images(imgs) ==
    {f \in DOMAIN imgs : imgs[f].active /\ ~imgs[f].is_directory /\ ~imgs[f].hidden}

get_all_active_count(imgs) == Cardinality(get_all_active_images(imgs))

\* SELECT filepath, times_used ... WHERE active=1 AND is_directory=0 AND hidden=0
select_filepath_times_used(imgs) ==
    [f \in get_all_active_images(imgs) |-> imgs[f].times_used]

\* WHERE is_directory=0 AND active=1 (the row set of normalize_times_used)
least_used_rows(imgs) ==
    {f \in DOMAIN imgs : ~imgs[f].is_directory /\ imgs[f].active}

\* Mutant: the UPDATE without total_times_used = total_times_used + 1.
increment_times_used_no_total(imgs, filepath) ==
    [f \in DOMAIN imgs |->
        IF f = filepath THEN [imgs[f] EXCEPT !.times_used = @ + 1] ELSE imgs[f]]

increment_times_used(imgs, filepath) ==
    [f \in DOMAIN imgs |->
        IF f = filepath
        THEN [imgs[f] EXCEPT !.times_used = @ + 1, !.total_times_used = @ + 1]
        ELSE imgs[f]]

\* Mutant: the least_used CTE without active=1.
normalize_times_used_min_of_all(imgs) ==
    LET rows == least_used_rows(imgs)
        all == {f \in DOMAIN imgs : ~imgs[f].is_directory}
    IN  IF rows = {} THEN imgs
        ELSE LET m == Min({imgs[f].times_used : f \in all})
             IN  [f \in DOMAIN imgs |->
                    IF f \in rows
                    THEN [imgs[f] EXCEPT !.times_used = @ - m]
                    ELSE imgs[f]]

\* Mutant: the UPDATE also renormalizes total_times_used.
normalize_times_used_and_total(imgs) ==
    LET rows == least_used_rows(imgs)
    IN  IF rows = {} THEN imgs
        ELSE LET m == Min({imgs[f].times_used : f \in rows})
             IN  [f \in DOMAIN imgs |->
                    IF f \in rows
                    THEN [imgs[f] EXCEPT !.times_used = @ - m,
                                         !.total_times_used = @ - m]
                    ELSE imgs[f]]

\* Mutant: the UPDATE without its WHERE clause.
normalize_times_used_every_row(imgs) ==
    LET rows == least_used_rows(imgs)
    IN  IF rows = {} THEN imgs
        ELSE LET m == Min({imgs[f].times_used : f \in rows})
             IN  [f \in DOMAIN imgs |-> [imgs[f] EXCEPT !.times_used = @ - m]]

normalize_times_used(imgs) ==
    LET rows == least_used_rows(imgs)
    IN  IF rows = {} THEN imgs
        ELSE LET m == Min({imgs[f].times_used : f \in rows})
             IN  [f \in DOMAIN imgs |->
                    IF f \in rows
                    THEN [imgs[f] EXCEPT !.times_used = @ - m]
                    ELSE imgs[f]]

\* Mutant: the weights without the + 1.
weights_no_plus_one(rows) ==
    LET max_times_used == Max(Range(rows))
    IN  [f \in DOMAIN rows |-> max_times_used - rows[f]]

\* weights = [max_times_used - w + 1 for w in times_used]
weights(rows) ==
    LET max_times_used == Max(Range(rows))
    IN  [f \in DOMAIN rows |-> max_times_used - rows[f] + 1]

\* random.choices(filepaths, weights=weights)[0]: any entry of positive weight
choices(rows) == {f \in DOMAIN rows : weights(rows)[f] > 0}

\* Mutant: choice over every row read, whatever its bucket.
least_used_bucket_all(rows) == DOMAIN rows

\* Mutant: max(weights_dict) in place of min(weights_dict).
least_used_bucket_of_max(rows) ==
    LET most_times_used == Max(Range(rows))
    IN  {f \in DOMAIN rows : rows[f] = most_times_used}

\* weights_dict[min(weights_dict)]: the bucket of the least times_used
least_used_bucket(rows) ==
    LET least_times_used == Min(Range(rows))
    IN  {f \in DOMAIN rows : rows[f] = least_times_used}

NoWeights == [f \in {} |-> 0]

\* Mutant: normalize_times_used() indented under "if increment:".
after_pick_normalize_if_increment(imgs, filepath, increment) ==
    IF increment THEN normalize_times_used(increment_times_used(imgs, filepath)) ELSE imgs

\* The tail every pick shares: optional increment, then normalization.
after_pick(imgs, filepath, increment) ==
    normalize_times_used(IF increment THEN increment_times_used(imgs, filepath) ELSE imgs)

RECURSIVE SumTotal(_, _)
SumTotal(imgs, S) ==
    IF S = {} THEN 0
    ELSE LET f == CHOOSE x \in S : TRUE
         IN  imgs[f].total_times_used + SumTotal(imgs, S \ {f})

\* Counters stay inside the model's bounds: no counted pick once the table's
\* total_times_used add up to MaxPicks.
CanIncrement(imgs) == SumTotal(imgs, DOMAIN imgs) < MaxPicks

Picked(alg, increment, rows, w, filepath) ==
    [op |-> "pick", algorithm |-> alg, increment |-> increment,
     rows |-> rows, weights |-> w, filepath |-> filepath, event |-> ""]

PickError(alg, increment) ==
    [op |-> "pick_error", algorithm |-> alg, increment |-> increment,
     rows |-> NoWeights, weights |-> NoWeights, filepath |-> -1, event |-> ""]

Called(op, event) ==
    [op |-> op, algorithm |-> "", increment |-> FALSE,
     rows |-> NoWeights, weights |-> NoWeights, filepath |-> -1, event |-> event]

Other(op) == Called(op, "")

\* ------------------------------------------------------------- Db calls
\* Mutant: a SELECT that found no row returns None and the pick carries on.
get_random_image_none(increment) ==
    LET rows == select_filepath_times_used(images)
    IN  \/ /\ DOMAIN rows = {}
           /\ images' = normalize_times_used(images)
           /\ last' = Picked("pure", increment, rows, NoWeights, -1)
        \/ \E filepath \in DOMAIN rows :
              /\ increment => CanIncrement(images)
              /\ images' = after_pick(images, filepath, increment)
              /\ last' = Picked("pure", increment, rows, NoWeights, filepath)

get_random_image(increment) ==
    LET rows == select_filepath_times_used(images)
    IN  \/ /\ DOMAIN rows = {}
           /\ last' = PickError("pure", increment)
           /\ UNCHANGED images
        \/ \E filepath \in DOMAIN rows :
              /\ increment => CanIncrement(images)
              /\ images' = after_pick(images, filepath, increment)
              /\ last' = Picked("pure", increment, rows, NoWeights, filepath)

get_random_image_with_weighting(increment) ==
    LET rows == select_filepath_times_used(images)
    IN  \/ /\ DOMAIN rows = {}
           /\ last' = PickError("weighted", increment)
           /\ UNCHANGED images
        \/ /\ DOMAIN rows # {}
           /\ \E filepath \in choices(rows) :
                /\ increment => CanIncrement(images)
                /\ images' = after_pick(images, filepath, increment)
                /\ last' = Picked("weighted", increment, rows, weights(rows), filepath)

\* The body of get_random_image_from_least_used; in_bounds says whether the
\* counters may still grow in the run at hand.
least_used_pick(increment, in_bounds) ==
    LET rows == select_filepath_times_used(images)
    IN  \/ /\ DOMAIN rows = {}
           /\ last' = PickError("least used", increment)
           /\ UNCHANGED images
        \/ /\ DOMAIN rows # {}
           /\ \E filepath \in least_used_bucket(rows) :
                /\ increment => in_bounds
                /\ images' = after_pick(images, filepath, increment)
                /\ last' = Picked("least used", increment, rows, NoWeights, filepath)

get_random_image_from_least_used(increment) ==
    least_used_pick(increment, CanIncrement(images))

\* Db.normalize_times_used called on its own; last.rows keeps the times_used the
\* UPDATE found in the rows it covers.
NormalizeTimesUsed ==
    /\ images' = normalize_times_used(images)
    /\ last' = [Other("normalize") EXCEPT
                   !.rows = [f \in least_used_rows(images) |-> images[f].times_used]]
    /\ UNCHANGED appVars

\* INSERT ... ON CONFLICT(filepath) DO UPDATE SET hidden=FALSE
add_images(imgs, filepaths) ==
    [f \in DOMAIN imgs \cup filepaths |->
        IF f \in filepaths
        THEN IF f \in DOMAIN imgs THEN [imgs[f] EXCEPT !.hidden = FALSE]
             ELSE make_images_table(FALSE)
        ELSE imgs[f]]

AddImages ==
    \E filepaths \in SUBSET Files \ {{}} :
        /\ images' = add_images(images, filepaths)
        /\ last' = Other("maintenance")
        /\ UNCHANGED appVars

\* INSERT ... ON CONFLICT (filepath) DO NOTHING
add_directory(imgs, dir_path) ==
    [f \in DOMAIN imgs \cup {dir_path} |->
        IF f \in DOMAIN imgs THEN imgs[f] ELSE make_images_table(TRUE)]

AddDirectory ==
    \E dir_path \in Dirs :
        /\ images' = add_directory(images, dir_path)
        /\ last' = Other("maintenance")
        /\ UNCHANGED appVars

\* UPDATE ... SET hidden=TRUE WHERE filepath IN (...)
hide_images(imgs, filepaths) ==
    [f \in DOMAIN imgs |->
        IF f \in filepaths THEN [imgs[f] EXCEPT !.hidden = TRUE] ELSE imgs[f]]

HideImages ==
    \E filepaths \in SUBSET Files \ {{}} :
        /\ images' = hide_images(images, filepaths)
        /\ last' = Other("maintenance")
        /\ UNCHANGED appVars

\* UPDATE ... SET active=? WHERE filepath=?
set_active_flag(imgs, filepath, active) ==
    [f \in DOMAIN imgs |->
        IF f = filepath THEN [imgs[f] EXCEPT !.active = active] ELSE imgs[f]]

SetActiveFlag ==
    \E filepath \in Files, active \in BOOLEAN :
        /\ images' = set_active_flag(images, filepath, active)
        /\ last' = Other("maintenance")
        /\ UNCHANGED appVars

\* DELETE FROM ... WHERE filepath=?
delete_image(imgs, filepath) ==
    [f \in DOMAIN imgs \ {filepath} |-> imgs[f]]

DeleteImage ==
    \E filepath \in Filepaths :
        /\ images' = delete_image(images, filepath)
        /\ last' = Other("maintenance")
        /\ UNCHANGED appVars

\* ------------------------------------------------- the rotation loop
EmptyTable == [f \in {} |-> make_images_table(FALSE)]
NoPick == -1
NoEpisode == [start |-> EmptyTable, picks |-> 0]

\* The statements of a pick that run between its SELECT and its commit.
InDb(t) == pc[t] \in {"increment", "commit"}
Quiescent == \A t \in Threads : pc[t] = "idle"

\* What each branch of pick_new_wallpaper's dispatch can return from the rows read.
candidates(alg, rows) ==
    CASE alg = "pure" -> DOMAIN rows
      [] alg = "weighted" -> choices(rows)
      [] alg = "least used" -> least_used_bucket(rows)

\* Mutant: the empty-list branch without its return.
trigger_image_loop_no_return(event) ==
    /\ timer' = "stopped"
    /\ dialog' = (dialog \/ get_all_active_count(images) = 0)
    /\ \E t \in Threads :
          /\ pc[t] = "idle"
          /\ \A u \in Threads : pc[u] = "idle" => t <= u
          /\ pc' = [pc EXCEPT ![t] = "select"]
    /\ last' = Called("trigger_image_loop", event)
    /\ UNCHANGED <<images, algorithm, picked, db_writer, txn, episode>>

\* cycle_timer.Stop(); count the eligible rows; none: dialog and return; else a thread.
trigger_image_loop(event) ==
    /\ timer' = "stopped"
    /\ IF get_all_active_count(images) = 0
       THEN /\ dialog' = TRUE
            /\ UNCHANGED pc
       ELSE /\ \E t \in Threads :
                 /\ pc[t] = "idle"
                 /\ \A u \in Threads : pc[u] = "idle" => t <= u
                 /\ pc' = [pc EXCEPT ![t] = "select"]
            /\ UNCHANGED dialog
    /\ last' = Called("trigger_image_loop", event)
    /\ UNCHANGED <<images, algorithm, picked, db_writer, txn, episode>>

\* post_init, the next_image keybind, the tray's advance_image: trigger_image_loop(None)
UserTrigger == trigger_image_loop("None")

\* cycle_timer.Bind(wx.EVT_TIMER, self.trigger_image_loop); StartOnce fires once
TimerFires ==
    /\ timer # "stopped"
    /\ trigger_image_loop("EVT_TIMER")

DismissDialog ==
    /\ dialog
    /\ dialog' = FALSE
    /\ last' = Other("app")
    /\ UNCHANGED <<images, algorithm, pc, picked, db_writer, txn, timer, episode>>

\* with Db(...) as db: the SELECT of the configured pick and the choice made from it.
\* An unrecognized "Random algorithm" raises ValueError before any statement runs.
\* The SELECT reads the committed table; no rows makes the pick raise. Either way
\* Db.__exit__ rolls back and the except branch queues cycle_timer.StartOnce(error_delay).
Select(t) ==
    /\ pc[t] = "select"
    /\ LET rows == select_filepath_times_used(images)
           alone == \A u \in Threads \ {t} : ~InDb(u)
       IN  \/ /\ algorithm \notin Algorithms
              /\ pc' = [pc EXCEPT ![t] = "idle"]
              /\ timer' = "error_delay"
              /\ episode' = NoEpisode
              /\ last' = Called("pick_new_wallpaper", "ValueError")
              /\ UNCHANGED picked
           \/ /\ algorithm \in Algorithms
              /\ DOMAIN rows = {}
              /\ pc' = [pc EXCEPT ![t] = "idle"]
              /\ timer' = "error_delay"
              /\ episode' = NoEpisode
              /\ last' = Other("app")
              /\ UNCHANGED picked
           \/ /\ algorithm \in Algorithms
              /\ DOMAIN rows # {}
              /\ \E filepath \in candidates(algorithm, rows) :
                    picked' = [picked EXCEPT ![t] = filepath]
              /\ pc' = [pc EXCEPT ![t] = "increment"]
              /\ episode' = IF alone THEN [start |-> images, picks |-> 1]
                            ELSE IF episode.picks = 1 THEN [episode EXCEPT !.picks = 2]
                            ELSE NoEpisode
              /\ last' = Other("app")
              /\ UNCHANGED timer
    /\ UNCHANGED <<images, algorithm, db_writer, txn, dialog>>

\* increment_times_used: the first write of the connection takes sqlite's write lock;
\* the UPDATE works on the table as committed then.
Increment(t) ==
    /\ pc[t] = "increment"
    /\ db_writer = 0
    /\ CanIncrement(images)
    /\ txn' = increment_times_used(images, picked[t])
    /\ db_writer' = t
    /\ pc' = [pc EXCEPT ![t] = "commit"]
    /\ last' = Other("app")
    /\ UNCHANGED <<images, algorithm, picked, timer, dialog, episode>>

\* The write lock stays busy past sqlite3's timeout: OperationalError, rollback, and
\* the except branch queues cycle_timer.StartOnce(error_delay).
LockTimeout(t) ==
    /\ pc[t] = "increment"
    /\ db_writer \notin {0, t}
    /\ pc' = [pc EXCEPT ![t] = "idle"]
    /\ picked' = [picked EXCEPT ![t] = NoPick]
    /\ timer' = "error_delay"
    /\ episode' = NoEpisode
    /\ last' = Other("app")
    /\ UNCHANGED <<images, algorithm, db_writer, txn, dialog>>

\* normalize_times_used inside the open transaction, then Db.__exit__: conn.commit()
Commit(t) ==
    /\ pc[t] = "commit"
    /\ images' = normalize_times_used(txn)
    /\ txn' = EmptyTable
    /\ db_writer' = 0
    /\ pc' = [pc EXCEPT ![t] = "set_wallpaper"]
    /\ last' = Other("app")
    /\ UNCHANGED <<algorithm, picked, timer, dialog, episode>>

\* Mutant: the except branches return without queueing StartOnce.
SetWallpaper_return_in_except(t) ==
    /\ pc[t] = "set_wallpaper"
    /\ \/ /\ timer' = "delay"
          /\ last' = Called("set_wallpaper", "ok")
          /\ UNCHANGED images
       \/ /\ UNCHANGED timer
          /\ \E e \in {"FileNotFoundError", "UnidentifiedImageError", "OSError"} :
                last' = Called("set_wallpaper", e)
          /\ UNCHANGED images
       \/ /\ db_writer = 0
          /\ images' = delete_image(images, picked[t])
          /\ UNCHANGED timer
          /\ last' = Called("set_wallpaper", "FileNotFoundError")
    /\ episode' = IF images' = images /\ \E u \in Threads : InDb(u) THEN episode ELSE NoEpisode
    /\ pc' = [pc EXCEPT ![t] = "idle"]
    /\ picked' = [picked EXCEPT ![t] = NoPick]
    /\ UNCHANGED <<algorithm, db_writer, txn, dialog>>

\* set_wallpaper: make_image succeeds; or it raises FileNotFoundError,
\* UnidentifiedImageError or OSError and the table stays as it is; or the file is
\* missing and delete_missing_image deletes its row. Every way ends in
\* wx.CallAfter(cycle_timer.StartOnce, delay), which the GUI thread then runs.
SetWallpaper(t) ==
    /\ pc[t] = "set_wallpaper"
    /\ \/ /\ timer' = "delay"
          /\ last' = Called("set_wallpaper", "ok")
          /\ UNCHANGED images
       \/ /\ timer' = "error_delay"
          /\ \E e \in {"FileNotFoundError", "UnidentifiedImageError", "OSError"} :
                last' = Called("set_wallpaper", e)
          /\ UNCHANGED images
       \/ /\ db_writer = 0
          /\ images' = delete_image(images, picked[t])
          /\ timer' = "error_delay"
          /\ last' = Called("set_wallpaper", "FileNotFoundError")
    /\ episode' = IF images' = images /\ \E u \in Threads : InDb(u) THEN episode ELSE NoEpisode
    /\ pc' = [pc EXCEPT ![t] = "idle"]
    /\ picked' = [picked EXCEPT ![t] = NoPick]
    /\ UNCHANGED <<algorithm, db_writer, txn, dialog>>

\* ------------------------------------------------------- specification
InitLoop ==
    /\ pc = [t \in Threads |-> "idle"]
    /\ picked = [t \in Threads |-> NoPick]
    /\ db_writer = 0
    /\ txn = EmptyTable
    /\ timer = "stopped"
    /\ dialog = FALSE
    /\ episode = NoEpisode

InitApp == InitLoop /\ InitColor

Init ==
    /\ images = EmptyTable
    /\ last = Other("init")
    /\ algorithm = "pure"
    /\ InitApp

\* The application starts on any catalog of newly added files.
AppInit ==
    /\ \E filepaths \in SUBSET Files : images = add_images(EmptyTable, filepaths)
    /\ last = Other("init")
    /\ algorithm \in RandomAlgorithm
    /\ InitApp

Next ==
    \/ \E increment \in BOOLEAN : get_random_image(increment) /\ UNCHANGED appVars
    \/ \E increment \in BOOLEAN : get_random_image_with_weighting(increment) /\ UNCHANGED appVars
    \/ \E increment \in BOOLEAN : get_random_image_from_least_used(increment) /\ UNCHANGED appVars
    \/ NormalizeTimesUsed
    \/ AddImages
    \/ AddDirectory
    \/ HideImages
    \/ SetActiveFlag
    \/ DeleteImage

Spec == Init /\ [][Next]_vars

AppNext ==
    \/ UserTrigger /\ UNCHANGED colorVars
    \/ TimerFires /\ UNCHANGED colorVars
    \/ DismissDialog /\ UNCHANGED colorVars
    \/ \E t \in Threads : Select(t) /\ UNCHANGED colorVars
    \/ \E t \in Threads : Increment(t) /\ UNCHANGED colorVars
    \/ \E t \in Threads : LockTimeout(t) /\ UNCHANGED colorVars
    \/ \E t \in Threads : Commit(t) /\ UNCHANGED colorVars
    \/ \E t \in Threads : SetWallpaper(t) /\ UNCHANGED colorVars

AppSpec == AppInit /\ [][AppNext]_vars

TypeOK ==
    /\ DOMAIN images \subseteq Filepaths
    /\ \A f \in DOMAIN images :
          /\ images[f].times_used \in Int
          /\ images[f].total_times_used \in 0..MaxPicks
          /\ images[f].is_directory = (f \in Dirs)

\* ------------------------------------------------- src/src/kmeans.py
\* A mean is the exact fraction sum/n of the channel sums of n pixels; a pixel p
\* is the mean [sum |-> p, n |-> 1].
Channels == 1..3
Point(p) == [sum |-> p, n |-> 1]

\* np.linalg.norm(a - b) squared, as the numerator over (a.n * b.n)^2
norm2(a, b) ==
    LET d == [k \in Channels |-> a.sum[k] * b.n - b.sum[k] * a.n]
    IN  d[1] * d[1] + d[2] * d[2] + d[3] * d[3]

\* np.linalg.norm(a - b) <= distance, for a distance >= 0
norm_le(a, b, distance) ==
    norm2(a, b) <= distance * distance * (a.n * b.n) * (a.n * b.n)

\* np.array_equal on two arrays of means
array_equal(a, b) ==
    /\ Len(a) = Len(b)
    /\ \A i \in 1..Len(a) : norm2(a[i], b[i]) = 0

\* np.mean(array_of_pixels, axis=0)
RECURSIVE sum_of_pixels(_)
sum_of_pixels(array_of_pixels) ==
    IF array_of_pixels = << >> THEN [k \in Channels |-> 0]
    ELSE LET rest == sum_of_pixels(Tail(array_of_pixels))
         IN  [k \in Channels |-> Head(array_of_pixels)[k] + rest[k]]
mean_of_pixels(array_of_pixels) ==
    [sum |-> sum_of_pixels(array_of_pixels), n |-> Len(array_of_pixels)]

\* np.argmin over the distances from one pixel to every mean: the first index of
\* the minimum.
closest_index(ms, pixel) ==
    LET p == Point(pixel)
        nearer(i, j) == norm2(p, ms[i]) * ms[j].n * ms[j].n < norm2(p, ms[j]) * ms[i].n * ms[i].n
    IN  CHOOSE i \in 1..Len(ms) :
            /\ \A j \in 1..Len(ms) : ~nearer(j, i)
            /\ \A j \in 1..(i - 1) : nearer(i, j)

\* closest_indices = np.argmin(distances, axis=1)
RECURSIVE closest_indices(_, _)
closest_indices(ms, pix) ==
    IF pix = << >> THEN << >>
    ELSE <<closest_index(ms, Head(pix))>> \o closest_indices(ms, Tail(pix))

\* pixels[np.where(closest_indices == i)]
RECURSIVE pixels_where(_, _, _)
pixels_where(pix, closest, i) ==
    IF pix = << >> THEN << >>
    ELSE (IF Head(closest) = i THEN <<Head(pix)>> ELSE << >>)
            \o pixels_where(Tail(pix), Tail(closest), i)

RECURSIVE groups_from(_, _, _, _)
groups_from(pix, closest, i, n) ==
    IF i > n THEN << >>
    ELSE <<pixels_where(pix, closest, i)>> \o groups_from(pix, closest, i + 1, n)

group_pixels_by_means(ms, pix) == groups_from(pix, closest_indices(ms, pix), 1, Len(ms))

\* Mutant: the empty groups are left in.
remove_empty_groups_keep_all(ms, groups) == [m |-> ms, p |-> groups]

\* "Remove any means with no associated pixel groups": the means m and groups p kept
RECURSIVE remove_empty_groups(_, _)
remove_empty_groups(ms, groups) ==
    IF groups = << >> THEN [m |-> << >>, p |-> << >>]
    ELSE LET rest == remove_empty_groups(Tail(ms), Tail(groups))
         IN  IF Head(groups) = << >> THEN rest
             ELSE [m |-> <<Head(ms)>> \o rest.m, p |-> <<Head(groups)>> \o rest.p]

\* np.array([mean_of_pixels(group) for group in pixel_groups_by_mean])
RECURSIVE means_of_groups(_)
means_of_groups(groups) ==
    IF groups = << >> THEN << >>
    ELSE <<mean_of_pixels(Head(groups))>> \o means_of_groups(Tail(groups))

\* all(distances <= max_distance) over corresponding means
are_pixels_within_distance(pixels_a, pixels_b, max_distance) ==
    \A i \in 1..Len(pixels_a) : norm_le(pixels_a[i], pixels_b[i], max_distance)

\* sorted(a set of indices)
RECURSIVE sorted(_)
sorted(S) ==
    IF S = {} THEN << >>
    ELSE LET least == Min(S) IN <<least>> \o sorted(S \ {least})

\* The loop over i that builds mean_groups: an unvisited i opens a group of i and
\* every j within pruning_distance of it, visited or not.
RECURSIVE mean_groups_from(_, _, _, _)
mean_groups_from(ms, pruning_distance, i, visited) ==
    IF i > Len(ms) THEN << >>
    ELSE IF i \in visited THEN mean_groups_from(ms, pruning_distance, i + 1, visited)
    ELSE LET group == {i} \cup {j \in 1..Len(ms) :
                                   i # j /\ norm_le(ms[i], ms[j], pruning_distance)}
         IN  <<group>> \o mean_groups_from(ms, pruning_distance, i + 1, visited \cup group)

mean_groups(ms, pruning_distance) == mean_groups_from(ms, pruning_distance, 1, {})

\* Mutant: min in place of max.
max_index_fewest(group, pixel_groups) ==
    {idx \in group : \A j \in group : Len(pixel_groups[idx]) <= Len(pixel_groups[j])}

\* max(group, key=lambda idx: len(pixel_groups[idx])): an index of the group with
\* the largest pixel group; which one among equals depends on the set's order.
max_index(group, pixel_groups) ==
    {idx \in group : \A j \in group : Len(pixel_groups[idx]) >= Len(pixel_groups[j])}

\* Every set arrays_to_keep can come to hold.
arrays_to_keep(groups, pixel_groups) ==
    {{c[g] : g \in DOMAIN groups} :
        c \in {c \in [DOMAIN groups -> UNION Range(groups)] :
                  \A g \in DOMAIN groups : c[g] \in max_index(groups[g], pixel_groups)}}

\* [array[i] for i in arrays_to_keep]
RECURSIVE take(_, _)
take(array, keep) ==
    IF keep = << >> THEN << >>
    ELSE <<array[Head(keep)]>> \o take(array, Tail(keep))

\* Mutant: the early return taken whatever mean_groups holds.
prune_means_early_return(ms, pixel_groups, pruning_distance) ==
    {[means |-> ms, pixel_groups |-> pixel_groups, kept |-> sorted(1..Len(ms))]}

\* prune_means: every (final_means, final_pixel_groups) it can return, with the
\* indices kept.
prune_means(ms, pixel_groups, pruning_distance) ==
    UNION {IF Len(ms) = Len(groups)
           THEN {[means |-> ms, pixel_groups |-> pixel_groups, kept |-> sorted(1..Len(ms))]}
           ELSE {[means |-> take(ms, keep),
                  pixel_groups |-> take(pixel_groups, keep),
                  kept |-> keep] :
                    keep \in {sorted(S) : S \in arrays_to_keep(groups, pixel_groups)}} :
              groups \in {mean_groups(ms, pruning_distance)}}

\* np.round(x) of the fraction x = s/n >= 0: to the nearest integer, a half to the
\* even one.
round(s, n) ==
    LET q == s \div n
        r == s % n
    IN  IF 2 * r < n THEN q
        ELSE IF 2 * r > n THEN q + 1
        ELSE IF q % 2 = 0 THEN q ELSE q + 1

pixel_to_tuple(pixel) == [k \in Channels |-> round(pixel.sum[k], pixel.n)]

\* {pixel_to_tuple(new_mean): len(pixel_group) for ... in zip(means, groups)}: a later
\* mean that rounds to the same tuple replaces the earlier entry.
kmeans_return(ms, groups) ==
    LET n == Min({Len(ms), Len(groups)})
        keys == {pixel_to_tuple(ms[i]) : i \in 1..n}
    IN  [t \in keys |-> Len(groups[Max({i \in 1..n : pixel_to_tuple(ms[i]) = t})])]

\* The inputs the color functions are run on.
KmeansPalette == {<<0, 0, 0>>, <<2, 0, 0>>, <<4, 0, 0>>, <<0, 3, 0>>, <<9, 9, 9>>}
KmeansPixels == {<<0, 0, 0>>, <<2, 0, 0>>, <<4, 0, 0>>, <<9, 9, 9>>}
GroupSizes == {1, 2}
PruningDistances == {0, 2, 3}
MaxDistances == {0, 1}
PixelLists(palette, n) == UNION {[1..k -> palette] : k \in 1..n}

\* TestKmeans.test_pruning_distance, the mean [1.5, 2.5, 3.5] as <<3, 5, 7>> / 2
test_pruning_distance ==
    [means |-> <<Point(<<1, 2, 3>>), Point(<<4, 5, 6>>),
                 [sum |-> <<3, 5, 7>>, n |-> 2], Point(<<10, 10, 10>>)>>,
     pixel_groups |-> << <<<<7, 8, 9>>, <<10, 11, 12>>>>,
                         <<<<13, 14, 15>>>>,
                         <<<<1, 1, 1>>, <<2, 2, 2>>, <<3, 3, 3>>>>,
                         <<<<14, 14, 14>>>> >>,
     pruning_distance |-> 2]

\* A direct call: means from the palette, the i-th pixel group any number of
\* pixels <<i, k, 0>>, so that the groups of a call are told apart.
PruneCalls ==
    {test_pruning_distance} \cup
    {[means |-> [i \in 1..n |-> Point(ms[i])],
      pixel_groups |-> [i \in 1..n |-> [k \in 1..sizes[i] |-> <<i, k, 0>>]],
      pruning_distance |-> d] :
        n \in 1..MaxMeans,
        ms \in [1..MaxMeans -> KmeansPalette],
        sizes \in [1..MaxMeans -> GroupSizes],
        d \in PruningDistances}

catalogVars == <<images, last, algorithm, pc, picked, db_writer, txn, timer, dialog, episode>>

\* prune_means(means, pixel_groups, pruning_distance) called on its own
PruneMeansCall ==
    /\ cpc = "prune_means"
    /\ \E r \in prune_means(means, pixel_groups_by_mean, config.pruning_distance) :
          result' = r
    /\ cpc' = "pruned"
    /\ UNCHANGED <<pixels, means, pixel_groups_by_mean, config, iters, pruned, catalogVars, perfVars, shiftVars>>

\* means, pixel_groups_by_mean = subsample(pixels, n_clusters), []: n_clusters
\* different indices in any order
Subsample ==
    /\ cpc = "kmeans"
    /\ \E random_indices \in [1..config.n_clusters -> 1..Len(pixels)] :
          /\ \A i, j \in 1..config.n_clusters : i # j => random_indices[i] # random_indices[j]
          /\ means' = [i \in 1..config.n_clusters |-> Point(pixels[random_indices[i]])]
    /\ pixel_groups_by_mean' = << >>
    /\ cpc' = IF config.max_iters > 0 THEN "loop" ELSE "return"
    /\ UNCHANGED <<pixels, config, iters, pruned, result, catalogVars, perfVars, shiftVars>>

\* One pass of "for _ in range(max_iters)": assign, drop the means left without a
\* pixel, move the means, and once they stand still prune them.
KmeansIteration ==
    /\ cpc = "loop"
    /\ \E full \in {remove_empty_groups(means, group_pixels_by_means(means, pixels))} :
       \E new_means \in {means_of_groups(full.p)} :
       \E converged \in {are_pixels_within_distance(full.m, new_means, config.max_distance)} :
       LET p == full.p
           last_pass == iters + 1 >= config.max_iters
       IN  \/ /\ ~converged
              /\ means' = new_means
              /\ pixel_groups_by_mean' = p
              /\ pruned' = "not run"
              /\ cpc' = IF last_pass THEN "return" ELSE "loop"
           \/ /\ converged
              /\ config.pruning_distance = 0
              /\ means' = new_means
              /\ pixel_groups_by_mean' = p
              /\ pruned' = "not run"
              /\ cpc' = "return"
           \/ /\ converged
              /\ config.pruning_distance # 0
              /\ \E r \in prune_means(new_means, p, config.pruning_distance) :
                    /\ means' = r.means
                    /\ pixel_groups_by_mean' = r.pixel_groups
                    /\ pruned' = IF Len(r.means) < Len(new_means) THEN "removed" ELSE "nothing"
                    /\ cpc' = IF array_equal(new_means, r.means) \/ last_pass
                              THEN "return" ELSE "loop"
    /\ iters' = iters + 1
    /\ UNCHANGED <<pixels, config, result, catalogVars, perfVars, shiftVars>>

KmeansReturn ==
    /\ cpc = "return"
    /\ result' = kmeans_return(means, pixel_groups_by_mean)
    /\ cpc' = "returned"
    /\ UNCHANGED <<pixels, means, pixel_groups_by_mean, config, iters, pruned, catalogVars, perfVars, shiftVars>>

InitCatalog ==
    /\ InitPerf
    /\ images = EmptyTable
    /\ last = Other("init")
    /\ algorithm = "pure"
    /\ InitLoop

KmeansInit ==
    /\ InitCatalog
    /\ InitShift
    /\ iters = 0
    /\ pruned = "not run"
    /\ result = << >>
    /\ \/ /\ cpc = "prune_means"
          /\ pixels = << >>
          /\ \E call \in PruneCalls :
                /\ means = call.means
                /\ pixel_groups_by_mean = call.pixel_groups
                /\ config = [NoConfig EXCEPT !.pruning_distance = call.pruning_distance]
       \/ /\ cpc = "kmeans"
          /\ means = << >>
          /\ pixel_groups_by_mean = << >>
          /\ pixels \in PixelLists(KmeansPixels, MaxPixels)
          /\ config \in [n_clusters : 1..Len(pixels), max_iters : 1..MaxIters,
                         max_distance : MaxDistances, pruning_distance : PruningDistances]

KmeansNext ==
    \/ PruneMeansCall
    \/ Subsample
    \/ KmeansIteration
    \/ KmeansReturn

KmeansSpec == KmeansInit /\ [][KmeansNext]_vars

\* --------------------------------------------- src/src/mean_shift.py
\* np.linalg.norm(a - b) < distance, for a distance >= 0
norm_lt(a, b, distance) ==
    norm2(a, b) < distance * distance * (a.n * b.n) * (a.n * b.n)

\* within_radius = distances < radius: one boolean per point
RECURSIVE within(_, _, _)
within(pts, center, radius) ==
    IF pts = << >> THEN << >>
    ELSE <<norm_lt(Point(Head(pts)), center, radius)>> \o within(Tail(pts), center, radius)

\* points[mask]
RECURSIVE masked(_, _, _)
masked(pts, mask, keep) ==
    IF pts = << >> THEN << >>
    ELSE (IF Head(mask) = keep THEN <<Head(pts)>> ELSE << >>)
            \o masked(Tail(pts), Tail(mask), keep)

\* "for _ in range(max_iters)" with passes left to run: the center and within_radius
\* it ends with. After the last pass center has moved to new_center while
\* within_radius is still the one computed around the center before.
RECURSIVE shift(_, _, _, _, _)
shift(pts, center, radius, tolerance, passes) ==
    LET within_radius == within(pts, center, radius)
        new_center == mean_of_pixels(masked(pts, within_radius, TRUE))
    IN  IF \A i \in 1..Len(pts) : ~within_radius[i]
        THEN [center |-> center, within_radius |-> within_radius]
        ELSE IF norm_lt(new_center, center, tolerance)
        THEN [center |-> center, within_radius |-> within_radius]
        ELSE IF passes = 1
        THEN [center |-> new_center, within_radius |-> within_radius]
        ELSE shift(pts, new_center, radius, tolerance, passes - 1)

\* tuple(center): the key of cluster_centers; equal centers give equal keys
Scale == 12
center_key(center) == [k \in Channels |-> (center.sum[k] * Scale) \div center.n]

\* cluster_centers[key] += weight, on a defaultdict(int)
add_weight(cluster_centers, key, weight) ==
    [t \in DOMAIN cluster_centers \cup {key} |->
        IF t = key
        THEN (IF t \in DOMAIN cluster_centers THEN cluster_centers[t] ELSE 0) + weight
        ELSE cluster_centers[t]]

\* Mutant: every point dropped with the seed.
drop_seed_and_rest(pts) == << >>

\* Mutant: the seed stays in the working set.
drop_seed_none(pts) == pts

\* points = points[1:]
drop_seed(pts) == Tail(pts)

\* Mutant: only the first point removed, whatever within_radius holds.
remove_assigned_first_only(pts, within_radius) == Tail(pts)

\* points = points[~within_radius]
remove_assigned(pts, within_radius) == masked(pts, within_radius, FALSE)

NoClusters == [t \in {} |-> 0]

\* points = data.copy(); cluster_centers = defaultdict(int)
MeanShiftStart ==
    /\ cpc = "mean_shift"
    /\ points' = pixels
    /\ result' = NoClusters
    /\ cpc' = "while"
    /\ UNCHANGED <<pixels, means, pixel_groups_by_mean, config, iters, pruned,
                   shifted, abandoned, catalogVars, perfVars>>

\* One pass of "while len(points) > 0": shift the center from the first point, then
\* drop the seed or record the cluster and remove its points.
MeanShiftCluster ==
    /\ cpc = "while"
    /\ points # << >>
    /\ \E s \in {shift(points, Point(points[1]), config.radius, config.tolerance,
                       config.max_iters)} :
          /\ shifted' = s
          /\ IF \A i \in 1..Len(points) : ~s.within_radius[i]
             THEN /\ points' = drop_seed(points)
                  /\ abandoned' = abandoned + 1
                  /\ UNCHANGED result
             ELSE /\ result' = add_weight(result, center_key(s.center),
                                          Len(masked(points, s.within_radius, TRUE)))
                  /\ points' = remove_assigned(points, s.within_radius)
                  /\ UNCHANGED abandoned
    /\ UNCHANGED <<pixels, means, pixel_groups_by_mean, config, iters, pruned, cpc, catalogVars, perfVars>>

MeanShiftReturn ==
    /\ cpc = "while"
    /\ points = << >>
    /\ cpc' = "returned"
    /\ UNCHANGED <<pixels, means, pixel_groups_by_mean, config, iters, pruned, result,
                   shiftVars, catalogVars, perfVars>>

Radii == {0, 3, 5}
Tolerances == {0, 1}

MeanShiftInit ==
    /\ InitCatalog
    /\ InitShift
    /\ means = << >>
    /\ pixel_groups_by_mean = << >>
    /\ iters = 0
    /\ pruned = "not run"
    /\ result = << >>
    /\ cpc = "mean_shift"
    /\ pixels \in PixelLists(KmeansPalette, MaxPixels)
    /\ config \in [radius : Radii, tolerance : Tolerances, max_iters : 1..MaxIters]

MeanShiftNext ==
    \/ MeanShiftStart
    \/ MeanShiftCluster
    \/ MeanShiftReturn

MeanShiftSpec == MeanShiftInit /\ [][MeanShiftNext]_vars

\* --------------------------- src/src/image_utils.py: white exclusion
white_pixel == <<255, 255, 255>>

\* Mutant: distances > distance_threshold.
beyond_threshold_strictly(pixel, distance_threshold) ==
    \/ distance_threshold < 0
    \/ norm2(Point(pixel), Point(white_pixel)) > distance_threshold * distance_threshold

\* mask = distances >= distance_threshold, for one pixel
beyond_threshold(pixel, distance_threshold) ==
    \/ distance_threshold < 0
    \/ norm2(Point(pixel), Point(white_pixel)) >= distance_threshold * distance_threshold

RECURSIVE mask_of(_, _)
mask_of(pix, distance_threshold) ==
    IF pix = << >> THEN << >>
    ELSE <<beyond_threshold(Head(pix), distance_threshold)>>
            \o mask_of(Tail(pix), distance_threshold)

exclude_pixels_near_white(pix, distance_threshold) ==
    IF distance_threshold = 0 THEN pix
    ELSE masked(pix, mask_of(pix, distance_threshold), TRUE)

\* Pixels at distance 0, sqrt(3), 2 and sqrt(300) from white, and two far from it
\* (TestKmeans.test_white_exclusion).
WhitePalette ==
    {<<255, 255, 255>>, <<254, 254, 254>>, <<255, 255, 253>>, <<245, 245, 245>>,
     <<209, 92, 192>>, <<1, 104, 221>>}
Thresholds == {-1, 0, 2, 20, 500}

ExcludeOnce ==
    /\ cpc = "exclude_pixels_near_white"
    /\ result' = exclude_pixels_near_white(pixels, config.threshold)
    /\ cpc' = "once"
    /\ UNCHANGED <<pixels, means, pixel_groups_by_mean, config, iters, pruned,
                   shiftVars, catalogVars, perfVars>>

ExcludeAgain ==
    /\ cpc = "once"
    /\ result' = exclude_pixels_near_white(result, config.threshold)
    /\ cpc' = "twice"
    /\ UNCHANGED <<pixels, means, pixel_groups_by_mean, config, iters, pruned,
                   shiftVars, catalogVars, perfVars>>

WhiteInit ==
    /\ InitCatalog
    /\ InitShift
    /\ means = << >>
    /\ pixel_groups_by_mean = << >>
    /\ iters = 0
    /\ pruned = "not run"
    /\ result = << >>
    /\ cpc = "exclude_pixels_near_white"
    /\ pixels \in PixelLists(WhitePalette, MaxPixels)
    /\ config \in [threshold : Thresholds]

WhiteNext ==
    \/ ExcludeOnce
    \/ ExcludeAgain

WhiteSpec == WhiteInit /\ [][WhiteNext]_vars

\* ----------------------------- src/src/image_utils.py: sort_means
\* A dict is the sequence of its items (key, value) in insertion order.
\* Mutant: an item goes in front of the items of equal weight.
insert_by_weight_before_equal(s, x) ==
    LET ahead == {i \in 1..Len(s) : s[i][2] > x[2]}
        at == Cardinality(ahead)
    IN  SubSeq(s, 1, at) \o <<x>> \o SubSeq(s, at + 1, Len(s))

\* The place sorted(..., key=lambda x: x[1], reverse=True) gives an item among the
\* already placed items that came before it: behind every item of larger or equal
\* weight (the sort is stable, reverse=True keeps equal items in their order).
insert_by_weight(s, x) ==
    LET ahead == {i \in 1..Len(s) : s[i][2] >= x[2]}
        at == Cardinality(ahead)
    IN  SubSeq(s, 1, at) \o <<x>> \o SubSeq(s, at + 1, Len(s))

\* sorted(items, key=lambda x: x[1], reverse=True), items placed from the left
RECURSIVE sorted_by_weight(_, _)
sorted_by_weight(placed, items) ==
    IF items = << >> THEN placed
    ELSE sorted_by_weight(insert_by_weight(placed, Head(items)), Tail(items))

\* [x[0] for x in s]
RECURSIVE keys_of(_)
keys_of(s) == IF s = << >> THEN << >> ELSE <<Head(s)[1]>> \o keys_of(Tail(s))

\* sort_means(means): s, the sorted items, and the list returned
sort_means(items) ==
    [s |-> sorted_by_weight(<< >>, items), colors |-> keys_of(sorted_by_weight(<< >>, items))]

\* The dicts sort_means is run on: up to MaxMeans different colors, each with the
\* number of pixels of its cluster.
Weights == 1..MaxPixels
Dicts ==
    UNION {{[i \in 1..n |-> <<ks[i], ws[i]>>] :
               ks \in {f \in [1..n -> KmeansPixels] : \A i, j \in 1..n : i # j => f[i] # f[j]},
               ws \in [1..n -> Weights]} : n \in 0..MaxMeans}

SortMeans ==
    /\ cpc = "sort_means"
    /\ result' = sort_means(means)
    /\ cpc' = "sorted"
    /\ UNCHANGED <<pixels, means, pixel_groups_by_mean, config, iters, pruned,
                   shiftVars, catalogVars, perfVars>>

\* The items behind the returned list sorted once more by the same key.
SortAgain ==
    /\ cpc = "sorted"
    /\ result' = sort_means(result.s)
    /\ cpc' = "resorted"
    /\ UNCHANGED <<pixels, means, pixel_groups_by_mean, config, iters, pruned,
                   shiftVars, catalogVars, perfVars>>

SortInit ==
    /\ InitCatalog
    /\ InitShift
    /\ pixels = << >>
    /\ pixel_groups_by_mean = << >>
    /\ config = NoConfig
    /\ iters = 0
    /\ pruned = "not run"
    /\ result = << >>
    /\ cpc = "sort_means"
    /\ means \in Dicts

SortNext ==
    \/ SortMeans
    \/ SortAgain

SortSpec == SortInit /\ [][SortNext]_vars

\* ------------------------- get_common_colors_from_image and its caller
\* subsample(pixels, num_samples): every pixels[random_indices] of num_samples
\* different indices; np.random.choice raises ValueError when there is none.
subsample(pix, num_samples) ==
    {[i \in 1..num_samples |-> pix[random_indices[i]]] :
        random_indices \in {f \in [1..num_samples -> 1..Len(pix)] :
                               \A i, j \in 1..num_samples : i # j => f[i] # f[j]}}

\* What get_common_colors_from_image returns: a list, or None when the function
\* ends without a return statement.
ReturnList(colors) == [returned |-> "list", colors |-> colors]
ReturnNone == [returned |-> "None", colors |-> << >>]

\* except ValueError of kmeans.get_common_colors_from_image:
\* [(0, 0, 0)] * config.getint("Kmeans", "Cluster size")
kmeans_except == ReturnList([i \in 1..config.n_clusters |-> <<0, 0, 0>>])

\* except ValueError of mean_shift.get_common_colors_from_image: the traceback is
\* printed and the function ends (its return is commented out).
mean_shift_except == ReturnNone

except_ValueError == IF config.engine = "kmeans" THEN kmeans_except ELSE mean_shift_except

\* The entry point up to the clustering call: the optional subsample, then the
\* white exclusion.
GetCommonColorsFromImage ==
    /\ cpc = "get_common_colors_from_image"
    /\ \/ /\ config.subsample_size > 0
          /\ subsample(pixels, config.subsample_size) = {}
          /\ result' = except_ValueError
          /\ cpc' = "done"
          /\ UNCHANGED pixels
       \/ /\ \E sampled \in (IF config.subsample_size > 0
                             THEN subsample(pixels, config.subsample_size)
                             ELSE {pixels}) :
                pixels' = exclude_pixels_near_white(sampled, config.threshold)
          /\ cpc' = config.engine
          /\ UNCHANGED result
    /\ UNCHANGED <<means, pixel_groups_by_mean, config, iters, pruned, shiftVars, catalogVars, perfVars>>

\* kmeans: subsample(pixels, n_clusters) raises ValueError on fewer pixels than
\* clusters; the entry point's except branch returns.
KmeansValueError ==
    /\ cpc = "kmeans"
    /\ subsample(pixels, config.n_clusters) = {}
    /\ result' = except_ValueError
    /\ cpc' = "done"
    /\ UNCHANGED <<pixels, means, pixel_groups_by_mean, config, iters, pruned,
                   shiftVars, catalogVars, perfVars>>

\* The keys of a dict of weights in an order sort_means can return them in: never
\* a lighter key ahead of a heavier one.
RECURSIVE sorted_keys(_)
sorted_keys(counts) ==
    IF DOMAIN counts = {} THEN {<< >>}
    ELSE UNION {{<<t>> \o rest : rest \in sorted_keys([u \in DOMAIN counts \ {t} |-> counts[u]])} :
                   t \in {t \in DOMAIN counts : \A u \in DOMAIN counts : counts[t] >= counts[u]}}

\* pixel_to_tuple on a key of mean_shift_with_removal's dict
center_to_tuple(key) == [k \in Channels |-> round(key[k], Scale)]

\* sort_means(...) and pixels_to_tuples(...) on what the clustering returned
ReturnColors ==
    /\ cpc = "returned"
    /\ \E keys \in sorted_keys(result) :
          result' = ReturnList([i \in 1..Len(keys) |->
                                  IF config.engine = "kmeans" THEN keys[i]
                                  ELSE center_to_tuple(keys[i])])
    /\ cpc' = "done"
    /\ UNCHANGED <<pixels, means, pixel_groups_by_mean, config, iters, pruned,
                   shiftVars, catalogVars, perfVars>>

\* get_color_by_mode: get_common_color(common_colors, config_value), index the
\* number config_value ends in or 0 for none. len() or [0] of None raises
\* TypeError, [0] of an empty list IndexError.
get_common_color(common_colors, index) ==
    IF common_colors.returned = "None" THEN "TypeError"
    ELSE IF common_colors.colors = << >> THEN "IndexError"
    ELSE "color"

GetColorByMode ==
    /\ cpc = "done"
    /\ cpc' = get_common_color(result, config.index)
    /\ result' = IF cpc' = "color"
                 THEN LET n == Len(result.colors)
                          at == IF config.index = 0 THEN 0
                                ELSE Max({0, Min({config.index - 1, n - 1})})
                      IN  ReturnList(<<result.colors[at + 1]>>)
                 ELSE result
    /\ UNCHANGED <<pixels, means, pixel_groups_by_mean, config, iters, pruned,
                   shiftVars, catalogVars, perfVars>>

\* Images of a few dark pixels and white ones; the options of either engine.
EntryPalette == {<<255, 255, 255>>, <<0, 0, 0>>, <<2, 0, 0>>}
EntryConfigs ==
    [engine : {"kmeans"}, subsample_size : {-1, 2}, threshold : {0, 20}, index : {0, 2},
     n_clusters : {1, 2}, max_iters : 1..MaxIters, max_distance : {1},
     pruning_distance : {0, 2}, radius : {0}, tolerance : {0}]
    \cup
    [engine : {"mean_shift"}, subsample_size : {-1, 2}, threshold : {0, 20}, index : {0, 2},
     n_clusters : {1}, max_iters : 1..MaxIters, max_distance : {0},
     pruning_distance : {0}, radius : {0, 3}, tolerance : {1}]

EntryInit ==
    /\ InitCatalog
    /\ InitShift
    /\ means = << >>
    /\ pixel_groups_by_mean = << >>
    /\ iters = 0
    /\ pruned = "not run"
    /\ result = << >>
    /\ cpc = "get_common_colors_from_image"
    /\ pixels \in PixelLists(EntryPalette, MaxPixels)
    /\ config \in EntryConfigs

EntryNext ==
    \/ GetCommonColorsFromImage
    \/ KmeansValueError
    \/ Subsample
    \/ KmeansIteration
    \/ KmeansReturn
    \/ MeanShiftStart
    \/ MeanShiftCluster
    \/ MeanShiftReturn
    \/ ReturnColors
    \/ GetColorByMode

EntrySpec == EntryInit /\ [][EntryNext]_vars

\* ------------------------------ src/src/utils.py: perf and log_perf
\* Two image_loop threads inside kmeans.get_common_colors_from_image, each on its
\* own image. The list objects are numbered as they are made; the global name
\* perf_list is bound to the last one.
Titles == <<"Start", "Convert image:", "Exclude pixels:", "Kmeans:", "Most common mean:">>
current == perf_list[Len(perf_list)]

otherVars ==
    <<images, last, algorithm, picked, db_writer, txn, timer, dialog, episode,
      pixels, means, pixel_groups_by_mean, config, iters, pruned, cpc, result, shiftVars>>

\* get_color_by_mode calls kmeans.get_common_colors_from_image(img, self.config)
CallGetCommonColors(t) ==
    /\ pc[t] = "idle"
    /\ pc' = [pc EXCEPT ![t] = "perf"]
    /\ frame' = [frame EXCEPT ![t] = NoFrame]
    /\ UNCHANGED <<perf_list, otherVars>>

\* perf() without a title: perf_list = [], the global bound to a new list
PerfReset(t) ==
    /\ pc[t] = "perf"
    /\ perf_list' = Append(perf_list, << >>)
    /\ pc' = [pc EXCEPT ![t] = "append"]
    /\ UNCHANGED <<frame, otherVars>>

\* perf_list.append((title, perf_counter_ns())), on the list the global is bound to
\* now: the end of perf() and the whole of every perf(title). The clustering steps
\* between two calls touch no shared name.
PerfAppend(t) ==
    /\ pc[t] = "append"
    /\ perf_list' = [perf_list EXCEPT ![Len(perf_list)] = Append(@, Titles[frame[t].calls + 1])]
    /\ frame' = [frame EXCEPT ![t].calls = @ + 1]
    /\ pc' = [pc EXCEPT ![t] = IF frame[t].calls + 1 = Len(Titles) THEN "log_perf" ELSE "append"]
    /\ UNCHANGED otherVars

\* log_perf: enumerate(perf_list) holds on to the list the global is bound to now
LogPerfEnumerate(t) ==
    /\ pc[t] = "log_perf"
    /\ frame' = [frame EXCEPT ![t].it = Len(perf_list), ![t].i = 0]
    /\ pc' = [pc EXCEPT ![t] = "for"]
    /\ UNCHANGED <<perf_list, otherVars>>

\* One pass of the for loop: the next i of the enumerated list; i = 0 continues;
\* otherwise perf_list[i - 1][1], perf_list[i][1] are read through the global name.
\* An IndexError is no ValueError: it leaves get_common_colors_from_image.
LogPerfFor(t) ==
    /\ pc[t] = "for"
    /\ LET i == frame[t].i
       IN  IF i >= Len(perf_list[frame[t].it])
           THEN /\ pc' = [pc EXCEPT ![t] = "total"]
                /\ UNCHANGED frame
           ELSE IF i > 0 /\ i >= Len(current)
           THEN /\ pc' = [pc EXCEPT ![t] = "IndexError"]
                /\ UNCHANGED frame
           ELSE /\ frame' = [frame EXCEPT ![t].i = i + 1]
                /\ UNCHANGED pc
    /\ UNCHANGED <<perf_list, otherVars>>

\* t1, t2 = perf_list[0][1], perf_list[-1][1], then the return of the colors
LogPerfTotal(t) ==
    /\ pc[t] = "total"
    /\ pc' = [pc EXCEPT ![t] = IF current = << >> THEN "IndexError" ELSE "returned"]
    /\ UNCHANGED <<perfVars, otherVars>>

PerfNext ==
    \/ \E t \in Threads : CallGetCommonColors(t)
    \/ \E t \in Threads : PerfReset(t)
    \/ \E t \in Threads : PerfAppend(t)
    \/ \E t \in Threads : LogPerfEnumerate(t)
    \/ \E t \in Threads : LogPerfFor(t)
    \/ \E t \in Threads : LogPerfTotal(t)

PerfSpec == Init /\ [][PerfNext]_vars

\* ------------------------------- src/src/db.py: folders of the catalog
\* File paths as sequences of characters, "L" standing for "//NAS/Library":
\* Library1, its sibling Library10 and Library2, each with an image, Library1
\* with one more in a subfolder.
Library1 == <<"L", "1">>
Library10 == <<"L", "1", "0">>
Library2 == <<"L", "2">>
Libraries == {Library1, Library10, Library2}
LibraryImages ==
    {Library1 \o <<"/", "a">>, Library1 \o <<"/", "s", "/", "a">>,
     Library10 \o <<"/", "a">>, Library2 \o <<"/", "a">>}

\* The folder names of an Eagle library and their ids; the dicts the folder dialog
\* can hand to add_eagle_folder.
FolderNames == {"Art", "Art Again"}
FolderIds == {"ABCDEFG", "ZYXWV"}
FolderDicts ==
    UNION {{[i \in 1..n |-> <<ks[i], vs[i]>>] :
               ks \in {f \in [1..n -> FolderNames] : \A i, j \in 1..n : i # j => f[i] # f[j]},
               vs \in [1..n -> FolderIds]} : n \in 0..Cardinality(FolderNames)}

\* d[key] = value on a dict: an old key keeps its place
set_item(d, key, value) ==
    IF \E i \in 1..Len(d) : d[i][1] = key
    THEN [i \in 1..Len(d) |-> IF d[i][1] = key THEN <<key, value>> ELSE d[i]]
    ELSE Append(d, <<key, value>>)

\* d.update(other)
RECURSIVE update(_, _)
update(d, other) ==
    IF other = << >> THEN d
    ELSE update(set_item(d, Head(other)[1], Head(other)[2]), Tail(other))

\* add_eagle_folder: the table it leaves and the dict it returns. _scalar gives
\* None for no row and for a row whose eagle_folder_data is NULL; the INSERT does
\* nothing on a filepath that is there already.
add_eagle_folder(imgs, eagle_library_path, eagle_folder_data) ==
    LET data == IF eagle_library_path \in DOMAIN imgs
                THEN imgs[eagle_library_path].eagle_folder_data ELSE NULL
        d == update(json_loads(data), eagle_folder_data)
    IN  IF data.null
        THEN [images |-> [f \in DOMAIN imgs \cup {eagle_library_path} |->
                            IF f \in DOMAIN imgs THEN imgs[f]
                            ELSE [make_images_table(TRUE) EXCEPT
                                     !.is_eagle_directory = TRUE,
                                     !.eagle_folder_data = json_dumps(eagle_folder_data)]],
              returned |-> eagle_folder_data]
        ELSE [images |-> [imgs EXCEPT ![eagle_library_path].eagle_folder_data = json_dumps(d)],
              returned |-> d]

AddEagleFolder ==
    \E eagle_library_path \in {Library1}, eagle_folder_data \in FolderDicts :
        LET call == add_eagle_folder(images, eagle_library_path, eagle_folder_data)
        IN  /\ images' = call.images
            /\ last' = [op |-> "add_eagle_folder", filepath |-> eagle_library_path,
                        eagle_folder_data |-> eagle_folder_data, returned |-> call.returned]
            /\ UNCHANGED appVars

\* add_directory on a library path ("Add Folder" on the same folder)
AddLibraryDirectory ==
    \E dir_path \in {Library1, Library10} :
        /\ images' = add_directory(images, dir_path)
        /\ last' = Other("maintenance")
        /\ UNCHANGED appVars

\* add_images(filepaths, ephemeral): INSERT (filepath, ephemeral) ... ON CONFLICT
\* (filepath) DO UPDATE SET hidden=FALSE
add_images_ephemeral(imgs, filepaths, ephemeral) ==
    [f \in DOMAIN imgs \cup filepaths |->
        IF f \in filepaths
        THEN IF f \in DOMAIN imgs THEN [imgs[f] EXCEPT !.hidden = FALSE]
             ELSE [make_images_table(FALSE) EXCEPT !.ephemeral = ephemeral]
        ELSE imgs[f]]

AddLibraryImages ==
    \E filepaths \in SUBSET LibraryImages \ {{}}, ephemeral \in BOOLEAN :
        /\ images' = add_images_ephemeral(images, filepaths, ephemeral)
        /\ last' = Other("maintenance")
        /\ UNCHANGED appVars

\* filepath LIKE dir_path || '%': the path starts with dir_path
like_prefix(filepath, dir_path) ==
    /\ Len(dir_path) <= Len(filepath)
    /\ SubSeq(filepath, 1, Len(dir_path)) = dir_path

\* DELETE ... WHERE filepath LIKE ? AND is_directory=0 AND ephemeral=1
remove_ephemeral_images_in_folder(imgs, dir_path) ==
    [f \in {f \in DOMAIN imgs : ~(/\ like_prefix(f, dir_path)
                                  /\ ~imgs[f].is_directory
                                  /\ imgs[f].ephemeral)} |-> imgs[f]]

RemoveEphemeralImagesInFolder ==
    \E dir_path \in Libraries :
        /\ images' = remove_ephemeral_images_in_folder(images, dir_path)
        /\ last' = [op |-> "remove_ephemeral_images_in_folder", filepath |-> dir_path]
        /\ UNCHANGED appVars

FolderNext ==
    \/ AddEagleFolder
    \/ AddLibraryDirectory
    \/ AddLibraryImages
    \/ RemoveEphemeralImagesInFolder

FolderSpec == Init /\ [][FolderNext]_vars

\* ------------------------------------------------- least-used rounds
\* A catalog of newly added image files: every record active, shown, no directory,
\* times_used 0.
RoundCatalogs ==
    {add_images(EmptyTable, filepaths) : filepaths \in SUBSET (1..MaxCatalog) \ {{}}}

RoundInit ==
    /\ images \in RoundCatalogs
    /\ last = Other("init")
    /\ algorithm = "least used"
    /\ InitApp

\* db.get_random_image_from_least_used(increment=True), one call after another.
RoundPick ==
    /\ least_used_pick(TRUE, SumTotal(images, DOMAIN images)
                                < MaxRounds * Cardinality(DOMAIN images))
    /\ UNCHANGED appVars

RoundNext == RoundPick

RoundSpec == RoundInit /\ [][RoundNext]_vars


\* ================================================================ claims
\* The record sets the claims speak of, written out from their flags.
ActiveFiles(imgs) == {f \in DOMAIN imgs : imgs[f].active /\ ~imgs[f].is_directory}
EligibleFiles(imgs) ==
    {f \in DOMAIN imgs : imgs[f].active /\ ~imgs[f].is_directory /\ ~imgs[f].hidden}
TimesUsed(imgs, S) == {imgs[f].times_used : f \in S}

\* C1: after normalize_times_used(), run on its own or as the last statement of a
\* pick, the minimum times_used over the active, non-directory records is 0 whenever
\* there is such a record.
C1_NormalizedMinIsZero ==
    (last.op \in {"normalize", "pick"} /\ ActiveFiles(images) # {})
        => Min(TimesUsed(images, ActiveFiles(images))) = 0

\* C1 witness: a direct normalization found every row it covers above 0, the only
\* record at 0 being inactive, and so subtracted a positive minimum.
C1_Witness ==
    /\ last.op = "normalize"
    /\ DOMAIN last.rows # {}
    /\ Min(Range(last.rows)) > 0
    /\ \E f \in DOMAIN images : ~images[f].active /\ images[f].times_used = 0

\* C2: after every pick the minimum times_used among the eligible records (active,
\* not a directory, not hidden) is 0.
C2_EligibleMinIsZero ==
    (last.op = "pick" /\ EligibleFiles(images) # {})
        => Min(TimesUsed(images, EligibleFiles(images))) = 0

\* C3: a "least used" pick returns a record whose times_used, in the table the pick
\* started on, is the minimum over all eligible records of that table.
C3_LeastUsedPicksMinimum ==
    [][(last'.op = "pick" /\ last'.algorithm = "least used")
        => /\ last'.filepath \in EligibleFiles(images)
           /\ \A g \in EligibleFiles(images) :
                 images[last'.filepath].times_used <= images[g].times_used]_vars

\* C3 witness: a "least used" pick made while another eligible record had been used
\* more often than the one returned.
C3_Witness ==
    /\ last.op = "pick"
    /\ last.algorithm = "least used"
    /\ \E g \in DOMAIN last.rows : last.rows[g] > last.rows[last.filepath]

\* C4: in a "weighted" pick each eligible record's weight is max(times_used) -
\* times_used + 1 over the records read: at least 1, exactly 1 for a most-used
\* record, and strictly larger for a strictly less used record.
C4_WeightsInvertUsage ==
    (last.op = "pick" /\ last.algorithm = "weighted")
        => /\ DOMAIN last.weights = DOMAIN last.rows
           /\ \A f \in DOMAIN last.rows :
                 /\ last.weights[f] = Max(Range(last.rows)) - last.rows[f] + 1
                 /\ last.weights[f] >= 1
                 /\ (\A g \in DOMAIN last.rows : last.rows[g] <= last.rows[f])
                       => last.weights[f] = 1
                 /\ \A g \in DOMAIN last.rows :
                       last.rows[f] < last.rows[g] => last.weights[f] > last.weights[g]

\* C4 witness: a "weighted" pick over records of different times_used.
C4_Witness ==
    /\ last.op = "pick"
    /\ last.algorithm = "weighted"
    /\ \E f, g \in DOMAIN last.rows : last.rows[f] < last.rows[g]

\* C5: a pick with increment=true adds exactly 1 to the chosen record's
\* total_times_used and, with m the minimum over the active non-directory records of
\* times_used after the +1, leaves the chosen record at old + 1 - m and every other
\* active non-directory record at old - m.
C5_IncrementThenNormalize ==
    [][(last'.op = "pick" /\ last'.increment)
        => LET f == last'.filepath
               bumped == [g \in DOMAIN images |->
                            images[g].times_used + (IF g = f THEN 1 ELSE 0)]
               m == Min({bumped[g] : g \in ActiveFiles(images)})
           IN  /\ DOMAIN images' = DOMAIN images
               /\ f \in ActiveFiles(images)
               /\ images'[f].total_times_used = images[f].total_times_used + 1
               /\ images'[f].times_used = images[f].times_used + 1 - m
               /\ \A g \in ActiveFiles(images) \ {f} :
                     images'[g].times_used = images[g].times_used - m]_vars

\* C5 witness: a counted pick after which normalization took the +1 back: the
\* post-increment minimum was positive.
C5_Witness ==
    /\ last.op = "pick"
    /\ last.increment
    /\ Cardinality(DOMAIN last.rows) > 1
    /\ images[last.filepath].times_used = last.rows[last.filepath]

\* C6: a pick with increment=false changes no total_times_used and adds no +1, yet
\* subtracts the current minimum times_used of the active non-directory records from
\* each of them; on a table whose minimum is already 0 it changes nothing.
C6_NormalizeWithoutIncrement ==
    [][(last'.op = "pick" /\ ~last'.increment)
        => LET m == Min(TimesUsed(images, ActiveFiles(images)))
           IN  /\ DOMAIN images' = DOMAIN images
               /\ \A g \in DOMAIN images :
                     images'[g].total_times_used = images[g].total_times_used
               /\ \A g \in ActiveFiles(images) :
                     images'[g].times_used = images[g].times_used - m
               /\ m = 0 => images' = images]_vars

\* C6 witness: an uncounted pick that lowered a times_used.
C6_Witness ==
    /\ last.op = "pick"
    /\ ~last.increment
    /\ \E f \in DOMAIN last.rows : images[f].times_used < last.rows[f]

\* C7: while a record exists its total_times_used never decreases, a normalization
\* run on its own changes no total_times_used, and no times_used is ever negative.
C7_TotalNeverDecreases ==
    /\ [][\A f \in DOMAIN images \cap DOMAIN images' :
             images'[f].total_times_used >= images[f].total_times_used]_vars
    /\ [][last'.op = "normalize"
             => /\ DOMAIN images' = DOMAIN images
                /\ \A f \in DOMAIN images :
                      images'[f].total_times_used = images[f].total_times_used]_vars
    /\ [](\A f \in DOMAIN images : images[f].times_used >= 0)

\* C7 witness: a normalization lowered a record's times_used below what it was and
\* the record's total_times_used still counts every use.
C7_Witness ==
    /\ last.op = "normalize"
    /\ \E f \in DOMAIN last.rows :
          /\ images[f].times_used < last.rows[f]
          /\ images[f].total_times_used >= last.rows[f]

\* C8: under every strategy a pick returns a record that, in the table the pick
\* started on, is active, not a directory and not hidden.
C8_PickReturnsEligible ==
    [][last'.op = "pick"
        => /\ last'.filepath \in DOMAIN images
           /\ images[last'.filepath].active
           /\ ~images[last'.filepath].is_directory
           /\ ~images[last'.filepath].hidden]_vars

\* C8 witness: a pick made while the table also held an inactive, a hidden and a
\* directory record.
C8_Witness ==
    /\ last.op = "pick"
    /\ \E g \in DOMAIN images : ~images[g].active \/ images[g].hidden
    /\ \E g \in DOMAIN images : images[g].is_directory

\* Two overlapping picks are over: both committed and nothing else touched the table.
EpisodeDone == episode.picks = 2 /\ \A t \in Threads : ~InDb(t)

\* The tables two counted picks made one after the other can leave.
SerialOutcomes(start, alg) ==
    UNION {{after_pick(s1, f2, TRUE) : f2 \in candidates(alg, select_filepath_times_used(s1))} :
              s1 \in {after_pick(start, f1, TRUE) :
                        f1 \in candidates(alg, select_filepath_times_used(start))}}

\* C9: two concurrent picks leave the table as some serial order of the two would: no
\* increment is lost, no times_used is negative, the minimum over the active
\* non-directory records is 0, and a "least used" pick increments a record that is
\* least used in the table its update is applied to.
C9_ConcurrentPicksSerializable ==
    /\ \A t \in Threads :
          (pc[t] = "commit" /\ algorithm = "least used" /\ picked[t] \in DOMAIN images)
             => \A g \in EligibleFiles(images) :
                   images[picked[t]].times_used <= images[g].times_used
    /\ EpisodeDone
          => /\ images \in SerialOutcomes(episode.start, algorithm)
             /\ SumTotal(images, DOMAIN images)
                   = SumTotal(episode.start, DOMAIN episode.start) + 2
             /\ \A f \in DOMAIN images : images[f].times_used >= 0
             /\ Min(TimesUsed(images, ActiveFiles(images))) = 0

\* C10: a trigger_image_loop that finds no eligible image shows the empty-list
\* dialog, starts no thread and leaves the cycle timer stopped; and with the timer
\* stopped and no thread alive, only a trigger that is not the timer's starts a pick
\* or the timer again.
C10_EmptyCatalogNotRetried ==
    [][/\ (last'.op = "trigger_image_loop" /\ EligibleFiles(images) = {})
            => (dialog' /\ timer' = "stopped" /\ pc' = pc)
       /\ (timer = "stopped" /\ Quiescent
               /\ ~(last'.op = "trigger_image_loop" /\ last'.event = "None"))
            => (timer' = "stopped" /\ pc' = pc)]_vars

\* C10 witness: the timer fired on a catalog a pick thread had emptied, and the
\* loop stands still with the dialog up.
C10_Witness ==
    /\ last.op = "trigger_image_loop"
    /\ last.event = "EVT_TIMER"
    /\ EligibleFiles(images) = {}
    /\ dialog
    /\ timer = "stopped"
    /\ Quiescent

\* C11: an unrecognized "Random algorithm" makes the pick fail without choosing an
\* image and without touching the table, and the failure is not retried: it does
\* not start the cycle timer, and under such a configuration the timer starts no
\* pick thread.
C11_InvalidStrategyNotRetried ==
    [][/\ (last'.op = "pick_new_wallpaper" /\ last'.event = "ValueError")
            => (images' = images /\ picked' = picked /\ timer' = timer)
       /\ (algorithm \notin Algorithms /\ last'.op = "trigger_image_loop"
               /\ last'.event = "EVT_TIMER")
            => pc' = pc]_vars

\* C12: a pick that finds no eligible record fails under every strategy and with
\* either increment flag, returns no filepath and leaves the table as it was.
C12_EmptyPickFails ==
    [][(last'.op \in {"pick", "pick_error"} /\ EligibleFiles(images) = {})
          => /\ last'.op = "pick_error"
             /\ last'.filepath = NoPick
             /\ images' = images]_vars

\* C12 witness: a counted "least used" pick failed on a table that holds records
\* with counters, none of them eligible.
C12_Witness ==
    /\ last.op = "pick_error"
    /\ last.algorithm = "least used"
    /\ last.increment
    /\ \E f \in DOMAIN images : images[f].total_times_used > 0

\* C13: a pick or a normalization keeps the set of records and every active,
\* hidden and is_directory flag; total_times_used changes only for the record a
\* pick returned; times_used of an inactive or directory record does not change.
C13_PickFrame ==
    [][(last'.op \in {"pick", "pick_error", "normalize"})
          => /\ DOMAIN images' = DOMAIN images
             /\ \A f \in DOMAIN images :
                   /\ images'[f].active = images[f].active
                   /\ images'[f].hidden = images[f].hidden
                   /\ images'[f].is_directory = images[f].is_directory
                   /\ images'[f].total_times_used # images[f].total_times_used
                         => (last'.op = "pick" /\ f = last'.filepath)
                   /\ (~images[f].active \/ images[f].is_directory)
                         => images'[f].times_used = images[f].times_used]_vars

\* C13 witness: a counted pick whose normalization took the +1 back while an
\* inactive record with times_used above 0 and a directory record were in the table.
C13_Witness ==
    /\ last.op = "pick"
    /\ last.increment
    /\ images[last.filepath].times_used = last.rows[last.filepath]
    /\ \E f \in DOMAIN images : ~images[f].active /\ images[f].times_used > 0
    /\ \E f \in DOMAIN images : images[f].is_directory

\* Two means of a call lie within pruning_distance of each other.
TooClose(i, j) == i # j /\ norm_le(means[i], means[j], config.pruning_distance)
\* The means that take part in a direct call, and those the call kept.
MeanIndices == 1..Len(means)
Survivors == Range(result.kept)
GroupSize(i) == Len(pixel_groups_by_mean[i])

C15_PruneUnchangedIffNoneClose ==
    /\ cpc = "pruned" =>
          LET none_close == \A i, j \in MeanIndices : ~TooClose(i, j)
              unchanged == result.means = means /\ result.pixel_groups = pixel_groups_by_mean
          IN  /\ none_close <=> unchanged
              /\ ~none_close => Len(result.means) < Len(means)
    /\ pruned = "nothing" => cpc \in {"return", "returned"}

\* C15 witness: kmeans left its loop, with iterations to spare, after a pruning
\* step between at least two means that removed none.
C15_Witness ==
    /\ cpc = "return"
    /\ pruned = "nothing"
    /\ iters < config.max_iters
    /\ Len(means) > 1

\* The means connected to those of S by steps between means that are too close.
RECURSIVE Component(_)
Component(S) ==
    LET more == S \cup {j \in MeanIndices : \E i \in S : TooClose(i, j)}
    IN  IF more = S THEN S ELSE Component(more)

\* C16: prune_means keeps exactly one mean of every connected component of the
\* "too close" graph, one with the largest pixel group of the component, chains
\* included.
C16_OneSurvivorPerComponent ==
    cpc = "pruned" =>
       \A i \in MeanIndices :
          LET kept == Component({i}) \cap Survivors
          IN  /\ Cardinality(kept) = 1
              /\ \A k \in kept : \A j \in Component({i}) : GroupSize(k) >= GroupSize(j)

RECURSIVE SumOfCounts(_, _)
SumOfCounts(counts, keys) ==
    IF keys = {} THEN 0
    ELSE LET t == CHOOSE x \in keys : TRUE
         IN  counts[t] + SumOfCounts(counts, keys \ {t})

\* C17: kmeans does not return straight after a pruning step that removed a mean,
\* and the pixel counts it returns add up to the number of pixels it was given.
C17_PrunedPixelsReassigned ==
    /\ cpc \in {"return", "returned"} => pruned # "removed"
    /\ cpc = "returned" => SumOfCounts(result, DOMAIN result) = Len(pixels)

\* C18: mean_shift_with_removal accounts for every pixel: all along, the cluster
\* weights, the abandoned seeds and the points still to assign add up to the number
\* of input pixels, so on return the weights are the input minus the abandoned seeds.
C18_MeanShiftExhaustive ==
    /\ cpc = "while"
          => SumOfCounts(result, DOMAIN result) + abandoned + Len(points) = Len(pixels)
    /\ cpc = "returned"
          => /\ points = << >>
             /\ SumOfCounts(result, DOMAIN result) = Len(pixels) - abandoned

\* C18 witness: a run returned at least two clusters, one of several pixels.
C18_Witness ==
    /\ cpc = "returned"
    /\ Cardinality(DOMAIN result) >= 2
    /\ \E t \in DOMAIN result : result[t] >= 2

\* C19: when the for loop ends on a center with no point strictly within radius,
\* the pass removes the first remaining point and nothing else, records no cluster,
\* and the while loop goes on with the points that remain.
C19_AbandonedSeedOnly ==
    [][(/\ cpc = "while"
        /\ points' # points
        /\ \A i \in 1..Len(points) :
              ~norm_lt(Point(points[i]), shifted'.center, config.radius))
          => /\ points' = Tail(points)
             /\ result' = result
             /\ abandoned' = abandoned + 1
             /\ cpc' = "while"]_vars

\* C19 witness: a seed was abandoned and the loop stands at the next point.
C19_Witness ==
    /\ cpc = "while"
    /\ abandoned > 0
    /\ Len(points) > 1
    /\ DOMAIN result = {}

\* The indices of the pixels at least the threshold away from white.
FarFromWhite ==
    {i \in 1..Len(pixels) :
        LET d == [k \in Channels |-> 255 - pixels[i][k]]
        IN  \/ config.threshold <= 0
            \/ d[1] * d[1] + d[2] * d[2] + d[3] * d[3] >= config.threshold * config.threshold}

\* C20: exclude_pixels_near_white returns exactly the pixels whose distance to white
\* is at least the threshold, in their original order (all of them for threshold
\* 0), and applying it to its own result changes nothing.
C20_WhiteExclusionIdempotent ==
    /\ [](cpc \in {"once", "twice"}
            => /\ Len(result) = Cardinality(FarFromWhite)
               /\ \A i \in FarFromWhite :
                     result[Cardinality({j \in FarFromWhite : j <= i})] = pixels[i]
               /\ config.threshold = 0 => result = pixels)
    /\ [][cpc = "once" => result' = result]_vars

\* C20 witness: the second application returned, the first having dropped a pixel
\* from the middle of the list and kept one exactly at the threshold.
C20_Witness ==
    /\ cpc = "twice"
    /\ Len(pixels) = 3
    /\ FarFromWhite = {1, 3}
    /\ pixels[3] = <<255, 255, 253>>
    /\ config.threshold = 2

\* Where a color stands in the dict sort_means was called with.
InsertedAt(color) == CHOOSE i \in 1..Len(means) : means[i][1] = color
WeightOf(color) == means[InsertedAt(color)][2]

\* C21: sort_means returns every color of the dict once, in descending order of
\* weight, colors of equal weight in the order they were inserted; and sorting the
\* sorted items again by the same key changes nothing.
C21_SortMeansStable ==
    /\ [](cpc \in {"sorted", "resorted"}
            => /\ Len(result.colors) = Len(means)
               /\ {result.colors[i] : i \in 1..Len(means)} = {means[i][1] : i \in 1..Len(means)}
               /\ \A i, j \in 1..Len(means) :
                     i < j => \/ WeightOf(result.colors[i]) > WeightOf(result.colors[j])
                              \/ /\ WeightOf(result.colors[i]) = WeightOf(result.colors[j])
                                 /\ InsertedAt(result.colors[i]) < InsertedAt(result.colors[j]))
    /\ [][cpc = "sorted" => result' = result]_vars

\* C21 witness: the items were sorted a second time, the dict holding two colors of
\* equal weight inserted ahead of a heavier one.
C21_Witness ==
    /\ cpc = "resorted"
    /\ Len(means) = 3
    /\ means[1][2] = means[2][2]
    /\ means[3][2] > means[1][2]
    /\ result.colors = <<means[3][1], means[1][1], means[2][1]>>

\* C22: whatever the pixels, either entry point returns a list of at least one
\* color, the fallback when clustering failed, and the caller gets its color from it.
C22_ClusteringFallback ==
    /\ cpc = "done" => (result.returned = "list" /\ Len(result.colors) >= 1)
    /\ cpc \notin {"TypeError", "IndexError"}

C24_ReentrantEngines ==
    /\ \A t \in Threads : pc[t] # "IndexError"
    /\ \A t \in Threads : pc[t] = "returned" => perf_list[frame[t].it] = Titles

\* C25: after an add_eagle_folder call the path has a record that is a directory
\* and an Eagle directory with both counters 0; its eagle_folder_data is what the
\* record held before (nothing for a path not yet an Eagle folder) updated with the
\* supplied mapping, later values replacing earlier ones of the same name, so that
\* after a sequence of calls it is the merge of all supplied mappings; the call
\* returns that merged mapping and changes no other record.
C25_EagleFolderMerged ==
    [][last'.op = "add_eagle_folder"
        => LET path == last'.filepath
               before == IF path \in DOMAIN images /\ images[path].is_eagle_directory
                         THEN json_loads(images[path].eagle_folder_data) ELSE << >>
               merged == update(before, last'.eagle_folder_data)
           IN  /\ DOMAIN images' = DOMAIN images \cup {path}
               /\ images'[path].is_directory
               /\ images'[path].is_eagle_directory
               /\ images'[path].times_used = 0
               /\ images'[path].total_times_used = 0
               /\ images'[path].eagle_folder_data = json_dumps(merged)
               /\ last'.returned = merged
               /\ \A f \in DOMAIN images \ {path} : images'[f] = images[f]]_vars

\* The file lies in the folder: its path is the folder's, a separator, and more.
InFolder(filepath, dir_path) == like_prefix(filepath, dir_path \o <<"/">>)

\* C26: remove_ephemeral_images_in_folder(dir_path) deletes exactly the ephemeral
\* non-directory records whose file lies in the folder dir_path, and leaves every
\* other record as it was, those of a sibling folder whose name starts with
\* dir_path included.
C26_RemoveEphemeralFrame ==
    [][last'.op = "remove_ephemeral_images_in_folder"
        => LET dir_path == last'.filepath
               deleted == {f \in DOMAIN images : /\ InFolder(f, dir_path)
                                                 /\ ~images[f].is_directory
                                                 /\ images[f].ephemeral}
           IN  /\ DOMAIN images' = DOMAIN images \ deleted
               /\ \A f \in DOMAIN images' : images'[f] = images[f]]_vars

\* C27: in every kmeans iteration on a non-empty pixel list, after the empty groups
\* are removed every remaining mean has at least one pixel and stands at the index
\* of its own pixel group, and at least one mean remains; the lists kmeans carries
\* from one iteration to the next are of equal length with no empty group; the
\* number of means never grows from one iteration to the next, never exceeds
\* "Cluster size" and never reaches 0.
C27_KmeansCentersInvariant ==
    /\ [](cpc = "loop"
            => LET full == remove_empty_groups(means, group_pixels_by_means(means, pixels))
               IN  /\ Len(full.m) = Len(full.p)
                   /\ Len(full.m) >= 1
                   /\ Len(full.m) <= Len(means)
                   /\ \A i \in 1..Len(full.p) :
                         /\ full.p[i] # << >>
                         /\ \A k \in 1..Len(full.p[i]) :
                               means[closest_index(means, full.p[i][k])] = full.m[i])
    /\ [](cpc \in {"loop", "return"}
            => /\ Len(means) >= 1
               /\ Len(means) <= config.n_clusters
               /\ iters > 0
                    => /\ Len(pixel_groups_by_mean) = Len(means)
                       /\ \A i \in 1..Len(means) : pixel_groups_by_mean[i] # << >>)
    /\ [][cpc = "loop" => Len(means') <= Len(means)]_vars

\* C27 witness: the first iteration dropped a mean that no pixel was closest to and
\* the loop goes on with fewer means than "Cluster size".
C27_Witness ==
    /\ cpc = "loop"
    /\ iters = 1
    /\ pruned = "not run"
    /\ Len(means) < config.n_clusters

\* The points of the working set strictly within radius of a center.
NearCenter(center) ==
    {i \in 1..Len(points) : norm_lt(Point(points[i]), center, config.radius)}

\* C28: whenever a pass records a cluster, on convergence or with max_iters
\* exhausted, the weight it adds at the recorded center is the number of points of
\* the working set strictly within radius of that center, and exactly those points
\* leave the working set.
C28_WeightCountsPointsNearCenter ==
    [][(cpc = "while" /\ result' # result)
        => LET center == shifted'.center
               key == center_key(center)
               near == NearCenter(center)
           IN  /\ key \in DOMAIN result'
               /\ result'[key] = (IF key \in DOMAIN result THEN result[key] ELSE 0)
                                    + Cardinality(near)
               /\ Len(points') = Len(points) - Cardinality(near)
               /\ \A i \in 1..Len(points) \ near :
                     points'[Cardinality({j \in 1..i : j \notin near})] = points[i]]_vars

\* points is now what is left of before, in the same order.
RECURSIVE IsSubsequence(_, _)
IsSubsequence(s, of) ==
    IF s = << >> THEN TRUE
    ELSE IF of = << >> THEN FALSE
    ELSE IF Head(s) = Head(of) THEN IsSubsequence(Tail(s), Tail(of))
    ELSE IsSubsequence(s, Tail(of))

\* C29: mean_shift_with_removal terminates for every max_iters >= 1: each pass of
\* the while loop takes at least one point out of the working set and puts none
\* in, the working set starts as the N input pixels and is never longer, so no
\* run has more than N passes, and with the working set empty the only step left
\* is the return; the input array is never modified.
C29_MeanShiftTerminates ==
    /\ [][cpc = "while" /\ cpc' = "while"
            => /\ Len(points') < Len(points)
               /\ IsSubsequence(points', points)]_vars
    /\ [](cpc = "while" => IsSubsequence(points, pixels))
    /\ [][cpc = "while" /\ points = << >> => cpc' = "returned"]_vars
    /\ [][cpc # "mean_shift" => pixels' = pixels]_vars
    /\ [][cpc = "mean_shift" => pixels' = pixels /\ points' = pixels]_vars

\* C29 witness: a run of as many passes as there are input pixels has returned:
\* every pixel became a cluster of its own or was dropped as a seed.
C29_Witness ==
    /\ cpc = "returned"
    /\ Len(pixels) > 2
    /\ Cardinality(DOMAIN result) + abandoned = Len(pixels)

\* C30: on a fixed catalog of eligible records that start at times_used 0,
\* least-used picks with increment=True leave every times_used at 0 or 1 after
\* each pick, and the record picked is one that no other record has been picked
\* fewer times than: none is picked again before all the others of its round.
C30_LeastUsedRoundRobin ==
    /\ [](\A f \in DOMAIN images : images[f].times_used \in {0, 1})
    /\ [][last'.op = "pick"
            => \A g \in DOMAIN images :
                  images[last'.filepath].total_times_used <= images[g].total_times_used]_vars
    /\ [](\A f, g \in DOMAIN images :
            images[f].total_times_used - images[g].total_times_used <= 1)

\* C30 witness: a catalog of three records is in its second round: one record was
\* picked twice, after every record had been picked once.
C30_Witness ==
    /\ last.op = "pick"
    /\ Cardinality(DOMAIN images) > 2
    /\ images[last.filepath].total_times_used = 2
    /\ images[last.filepath].times_used = 1
    /\ \E g \in DOMAIN images : images[g].total_times_used = 1 /\ images[g].times_used = 0
====
